---------------------------- MODULE Spec2Model ----------------------------
(***************************************************************************)
(* State-machine model of the SPARQL XML results reader                    *)
(* (src/src/sparql/xml_results.rs): the header parser read_xml_results and *)
(* the row iterator ResultsIterator::next; and of the RDF writers          *)
(* (src/lib/src/io/write.rs): TripleWriter and QuadWriter.                 *)
(*                                                                         *)
(* The XML tokenizer (quick_xml's Reader) is the environment: each step    *)
(* of a parser loop draws the next event from the set Events, so that a    *)
(* behaviour of the model is a parse of some document, event by event.     *)
(* Option<T> values are sequences: None is <<>> and Some(v) is <<v>>.      *)
(***************************************************************************)
EXTENDS Integers, Sequences, FiniteSets, TLC

(***************************************************************************)
(* Bounds of the model.                                                    *)
(***************************************************************************)
\* variables declared in one header
MaxVars == 2
\* documents parsed one after the other (parse sessions)
MaxSessions == 2
\* calls of next() made on a given document
MaxCalls == 4
\* valid <result> elements of a given document
MaxRows == 2
\* calls of write made on a writer
MaxWrites == 3

(***************************************************************************)
(* Option<T>                                                               *)
(***************************************************************************)
None == <<>>
Some(v) == <<v>>
IsSome(o) == o /= <<>>
Unwrap(o) == o[1]
Opt(S) == {None} \cup {Some(v) : v \in S}

Range(f) == {f[k] : k \in DOMAIN f}

(***************************************************************************)
(* The vocabulary of the documents the model reads.                        *)
(***************************************************************************)
SparqlNs == "http://www.w3.org/2005/sparql-results#"
OtherNs == "http://www.w3.org/1999/xhtml"
NsOpts == {None, Some(SparqlNs), Some(OtherNs)}

XsdInteger == "http://www.w3.org/2001/XMLSchema#integer"
ExampleIri == "http://example.com/a"
\* a value whose XML escapes cannot be decoded
BadEscape == "&bad"

Tags == {"sparql", "head", "variable", "link", "boolean", "results",
         "result", "binding", "uri", "bnode", "literal", "other"}
VarNames == {"x", "y"}
Langs == {"en"}
Datatypes == {XsdInteger, "1"}
\* the texts of the documents: of a header, of the rows
HeaderTexts == {"true", "false", "1"}
RowTexts == {"1", ExampleIri}

\* NamedNode::from_str: the text parses as an IRI
IriParses(text) == text \in {ExampleIri, XsdInteger}
\* unescaped(), unescape_and_decode_value(): the escapes of the value decode
Unescapes(text) == text /= BadEscape

(***************************************************************************)
(* Events of the tokenizer: (namespace, event) as read_namespaced_event    *)
(* returns them.  Attributes are kept where the code reads them.           *)
(***************************************************************************)
Ev(kind, ns, name, an, al, ad, text) ==
    [kind |-> kind, ns |-> ns, name |-> name, attr_name |-> an,
     attr_lang |-> al, attr_datatype |-> ad, text |-> text]

EofEvent == Ev("Eof", None, "", None, None, None, "")
\* Comment, CData, Decl, PI, DocType: the arms `_ => ()`
OtherEvent == Ev("Comment", None, "", None, None, None, "")

\* the elements of a header: the code reads the name of a self-closing
\* <variable>
HeaderStartEvents ==
    {Ev("Start", ns, name, None, None, None, "") : ns \in NsOpts, name \in Tags}
HeaderEmptyEvents ==
    {Ev("Empty", ns, name, None, None, None, "") :
        ns \in NsOpts, name \in Tags \ {"variable"}}
    \cup {Ev("Empty", ns, "variable", an, None, None, "") :
        ns \in NsOpts, an \in Opt(VarNames \cup {BadEscape})}
\* the elements of the rows: the code reads the name of an opening <binding>
\* and the xml:lang and the datatype of an opening <literal>
RowTags == {"result", "uri", "bnode", "other"}
RowStartEvents ==
    {Ev("Start", ns, name, None, None, None, "") : ns \in NsOpts, name \in RowTags}
    \cup {Ev("Start", ns, "binding", an, None, None, "") :
        ns \in NsOpts, an \in Opt(VarNames \cup {BadEscape})}
    \cup {Ev("Start", ns, "literal", None, al, ad, "") :
        ns \in NsOpts, al \in Opt(Langs \cup {BadEscape}),
        ad \in Opt(Datatypes)}
RowEmptyEvents ==
    {Ev("Empty", ns, name, None, None, None, "") :
        ns \in NsOpts, name \in {"result", "binding", "other"}}
\* the code matches Event::End(_): the name of a closing tag is never read
EndEvents == {Ev("End", ns, "", None, None, None, "") : ns \in NsOpts}
TextEvents(texts) == {Ev("Text", None, "", None, None, None, t) :
                         t \in texts \cup {BadEscape}}

(***************************************************************************)
(* Values returned to the caller.                                          *)
(***************************************************************************)
R(kind, val) == [kind |-> kind, val |-> val]
Pending == R("Pending", "")
Err(msg) == R("Err", msg)

(***************************************************************************)
(* Terms of the model crate, as the reader builds them.                    *)
(***************************************************************************)
Term(tag, value, l, dt) == [tag |-> tag, value |-> value, lang |-> l, datatype |-> dt]
NamedNodeTerm(iri) == Term("NamedNode", iri, None, None)
BlankNodeTerm(id) == Term("BlankNode", id, None, None)
new_typed_literal(value, dt) == Term("Literal", value, None, Some(dt))
new_language_tagged_literal(value, l) == Term("Literal", value, Some(l), None)
new_simple_literal(value) == Term("Literal", value, None, None)

VARIABLES
    phase,        \* "header": in read_xml_results; "idle": between two calls
                  \* of next(); "next": in next(); "done": read_xml_results
                  \* returned no live iterator; "aborted": the thread panicked
    hstate,       \* read_xml_results: state
    variables,    \* read_xml_results: variables
    result,       \* what read_xml_results returned (Pending while it runs)
    iter,         \* the row sequence returned: "none", "results", "empty"
    mapping,      \* ResultsIterator.mapping
    bnodes_map,   \* ResultsIterator.bnodes_map
    state,        \* next(): state
    new_bindings, \* next(): new_bindings
    current_var,  \* next(): current_var
    term,         \* next(): term
    lang,         \* next(): lang
    datatype,     \* next(): datatype
    ret,          \* what the last call of next() returned (Pending while it runs)
    eof,          \* tokenizer: the end of the input was reached
    doc,          \* tokenizer: the document read, a sequence of events
                  \* (<<>>: any document, its events drawn one by one)
    pos,          \* tokenizer: position of the next event in doc
    session,      \* number of the current parse session
    next_id,      \* BlankNode::default: the next fresh identity
    old_ids,      \* history: identities allocated by earlier sessions
    resolved,     \* history: <<label, identity>> for every <bnode> text
                  \* resolved in this session
    doc_bindings, \* history: name |-> term of the bindings closed so far in
                  \* the <result> element being read
    calls         \* history: number of calls of next() made on the document
                  \* read (counted for a given document only)

\* io/write.rs
VARIABLES
    serializer,   \* GraphSerializer.syntax or DatasetSerializer.syntax
    formatter,    \* TripleWriter.formatter or QuadWriter.formatter: the kind
                  \* of the encoder; None: no writer, or the writer consumed
    open_block,   \* encoder: the subject (and graph) of the block left open
    sink,         \* the tokens written to the sink W
    wret,         \* what the last operation on the writer returned
    wlife,        \* history: "new", "created", "failed", "finished"
    wcalls,       \* history: number of calls of write
    submitted,    \* history: the statements of the calls of write that
                  \* returned Ok, in the order of the calls
    driven        \* history: the kinds of the encoders driven so far

reading == <<phase, hstate, variables, result, iter, mapping, bnodes_map, state,
             new_bindings, current_var, term, lang, datatype, ret,
             eof, doc, pos, session, next_id, old_ids, resolved, doc_bindings,
             calls>>
writing == <<serializer, formatter, open_block, sink, wret, wlife, wcalls,
             submitted, driven>>
vars == <<reading, writing>>

tokenizer == <<eof, doc, pos>>
header == <<hstate, variables>>
locals == <<state, new_bindings, current_var, term, lang, datatype>>
history == <<session, old_ids>>


(***************************************************************************)
(* BTreeMap                                                                *)
(***************************************************************************)
EmptyMap == [k \in {} |-> 0]
MapInsert(m, k, v) == [j \in DOMAIN m \cup {k} |-> IF j = k THEN v ELSE m[j]]

(***************************************************************************)
(* The tokenizer.  Read(e): read_namespaced_event returns e.  Nothing      *)
(* follows the end of the input.  A failure of the tokenizer is the        *)
(* pseudo-event ReadError.                                                 *)
(***************************************************************************)
ReadError == Ev("ReadError", None, "", None, None, None, "")

\* the next event of the document read
Upcoming == IF pos <= Len(doc) THEN doc[pos] ELSE EofEvent

\* mutant of Read: the event after the one returned is dropped
ReadSkips(e) ==
    /\ eof => e = EofEvent
    /\ doc /= <<>> => e = Upcoming
    /\ eof' = (eof \/ e.kind = "Eof")
    /\ pos' = IF doc /= <<>> /\ pos <= Len(doc) THEN pos + 2 ELSE pos
    /\ UNCHANGED doc

Read(e) ==
    /\ eof => e = EofEvent
    /\ doc /= <<>> => e = Upcoming
    /\ eof' = (eof \/ e.kind = "Eof")
    /\ pos' = IF doc /= <<>> /\ pos <= Len(doc) THEN pos + 1 ELSE pos
    /\ UNCHANGED doc

\* the namespace test made on every event before it is matched
NamespaceMismatch(e) == IsSome(e.ns) /\ Unwrap(e.ns) /= SparqlNs

UnexpectedNamespace == "Unexpected namespace found in RDF/XML query result"
ReaderFailed == "quick_xml error"

(***************************************************************************)
(* read_xml_results: one iteration of the loop `//Read header`.  Each arm  *)
(* gives the outcome of the iteration: the next state and variable list,   *)
(* and what is returned (Pending: the loop goes on).                       *)
(***************************************************************************)
HContinue(s, vs) ==
    [hstate |-> s, variables |-> vs, result |-> Pending, iter |-> "none"]
HReturn(r) ==
    [hstate |-> hstate, variables |-> variables, result |-> r, iter |-> "none"]
HBindings(rows) ==
    [hstate |-> hstate, variables |-> variables,
     result |-> R("Bindings", variables), iter |-> rows]

\* Event::Start(event) => match state
HeaderOnStart(e) ==
    CASE hstate = "Start" ->
            IF e.name = "sparql" THEN HContinue("Sparql", variables)
            ELSE HReturn(Err("Expecting <sparql> tag"))
      [] hstate = "Sparql" ->
            IF e.name = "head" THEN HContinue("Head", variables)
            ELSE HReturn(Err("Expecting <head> tag"))
      [] hstate = "Head" ->
            IF e.name \in {"variable", "link"}
            THEN HReturn(Err("<variable> and <link> tag should be autoclosing"))
            ELSE HReturn(Err("Expecting <variable> or <link> tag"))
      [] hstate = "AfterHead" ->
            IF e.name = "boolean" THEN HContinue("Boolean", variables)
            ELSE IF e.name = "results" THEN HBindings("results")
            ELSE IF e.name \notin {"link", "results", "boolean"}
            THEN HReturn(Err("Expecting sparql tag"))
            ELSE HContinue(hstate, variables)
      [] hstate = "Boolean" ->
            HReturn(Err("Unexpected tag inside of <boolean> tag"))

\* mutant of HeaderOnEmpty: a self-closing <results/> is one more
\* unexpected self-closing tag
HeaderOnEmptyResultsFatal(e) ==
    CASE hstate = "Head" /\ e.name = "link" -> HContinue(hstate, variables)
      [] hstate = "Head" /\ e.name = "variable" /\ IsSome(e.attr_name) ->
            HContinue(hstate, Append(variables, Unwrap(e.attr_name)))
      [] OTHER -> HReturn(Err("Unexpected autoclosing tag"))

\* mutant of HeaderOnEmpty: a variable is put at the head of the list
HeaderOnEmptyPrepends(e) ==
    CASE hstate = "Head" /\ e.name = "link" -> HContinue(hstate, variables)
      [] hstate = "Head" /\ e.name = "variable" /\ IsSome(e.attr_name) ->
            HContinue(hstate, <<Unwrap(e.attr_name)>> \o variables)
      [] hstate = "AfterHead" /\ e.name = "results" -> HBindings("empty")
      [] OTHER -> HReturn(Err("Unexpected autoclosing tag"))

\* Event::Empty(event) => match state
HeaderOnEmpty(e) ==
    CASE hstate = "Head" ->
            IF e.name = "variable"
            THEN IF ~IsSome(e.attr_name)
                 THEN HReturn(Err("No name attribute found for the <variable> tag"))
                 ELSE IF ~Unescapes(Unwrap(e.attr_name))
                 THEN HReturn(Err(ReaderFailed))
                 ELSE HContinue(hstate, Append(variables, Unwrap(e.attr_name)))
            ELSE IF e.name = "link" THEN HContinue(hstate, variables)
            ELSE HReturn(Err("Expecting <variable> or <link> tag"))
      [] hstate = "AfterHead" ->
            IF e.name = "results" THEN HBindings("empty")
            ELSE HReturn(Err("Unexpected autoclosing tag"))
      [] OTHER -> HReturn(Err("Unexpected autoclosing tag"))

\* Event::Text(event)
HeaderOnText(e) ==
    IF ~Unescapes(e.text) THEN HReturn(Err(ReaderFailed))
    ELSE IF hstate = "Boolean"
    THEN IF e.text = "true" THEN HReturn(R("Boolean", TRUE))
         ELSE IF e.text = "false" THEN HReturn(R("Boolean", FALSE))
         ELSE HReturn(Err("Unexpected boolean value"))
    ELSE HReturn(Err("Unexpected textual value found"))

\* mutant of HeaderOnEnd: a closing tag ends the head in every state
HeaderOnEndAnywhere(e) == HContinue("AfterHead", variables)

EarlyFileEnd == "Unexpected early file end"

\* Event::End(_) => match state
HeaderOnEnd(e) ==
    IF hstate = "Head" THEN HContinue("AfterHead", variables)
    ELSE HReturn(Err(EarlyFileEnd))

\* match event
HeaderMatch(e) ==
    CASE e.kind = "Start" -> HeaderOnStart(e)
      [] e.kind = "Empty" -> HeaderOnEmpty(e)
      [] e.kind = "Text" -> HeaderOnText(e)
      [] e.kind = "End" -> HeaderOnEnd(e)
      [] e.kind = "Eof" -> HReturn(Err(EarlyFileEnd))
      [] OTHER -> HContinue(hstate, variables)

\* mutant of HeaderIteration: the namespace is tested after the match
HeaderIterationMatchFirst(e) ==
    IF e.kind = "ReadError" THEN HReturn(Err(ReaderFailed))
    ELSE IF HeaderMatch(e).result /= Pending THEN HeaderMatch(e)
    ELSE IF NamespaceMismatch(e) THEN HReturn(Err(UnexpectedNamespace))
    ELSE HeaderMatch(e)

\* the body of the loop: read, test the namespace, match
HeaderIteration(e) ==
    IF e.kind = "ReadError" THEN HReturn(Err(ReaderFailed))
    ELSE IF NamespaceMismatch(e) THEN HReturn(Err(UnexpectedNamespace))
    ELSE HeaderMatch(e)

\* mutant of BuildMapping: the indices count from the end of the list
BuildMappingReversed(vs) ==
    [n \in Range(vs) |->
        Len(vs) - (CHOOSE i \in DOMAIN vs :
                      vs[i] = n /\ \A j \in DOMAIN vs : vs[j] = n => j <= i)]

\* mapping: for (i, var) in variables.iter().enumerate() { insert(var, i) }
\* (0-based indices; a later insert of the same name replaces the earlier)
BuildMapping(vs) ==
    [n \in Range(vs) |->
        (CHOOSE i \in DOMAIN vs :
            vs[i] = n /\ \A j \in DOMAIN vs : vs[j] = n => j <= i) - 1]

\* bnodes_map: BTreeMap::default()
NewBNodesMap == EmptyMap

ReadHeaderEvent(e) ==
    /\ phase = "header"
    /\ Read(e)
    /\ \E o \in {HeaderIteration(e)} :
        /\ Len(o.variables) <= MaxVars
        /\ hstate' = o.hstate
        /\ variables' = o.variables
        /\ result' = o.result
        /\ iter' = o.iter
        /\ phase' = IF o.result = Pending THEN "header"
                    ELSE IF o.iter = "none" THEN "done" ELSE "idle"
        /\ mapping' = IF o.iter = "results" THEN BuildMapping(variables) ELSE mapping
        /\ bnodes_map' = IF o.iter = "results" THEN NewBNodesMap ELSE bnodes_map
    /\ UNCHANGED <<locals, ret, history, next_id, resolved, doc_bindings,
                   calls, writing>>

HeaderStartEvent == \E e \in HeaderStartEvents : ReadHeaderEvent(e)
HeaderEmptyEvent == \E e \in HeaderEmptyEvents : ReadHeaderEvent(e)
HeaderTextEvent == \E e \in TextEvents(HeaderTexts) : ReadHeaderEvent(e)
HeaderEndEvent == \E e \in EndEvents : ReadHeaderEvent(e)
HeaderEof == ReadHeaderEvent(EofEvent)
HeaderOtherEvent == ReadHeaderEvent(OtherEvent)
HeaderReadError == ReadHeaderEvent(ReadError)

(***************************************************************************)
(* ResultsIterator::next.  NextCall is the entry of a call, up to the      *)
(* loop; the iterator returned for a self-closing <results/> is            *)
(* std::iter::empty(), whose next() is None.                               *)
(***************************************************************************)
\* new_bindings.resize(self.mapping.len(), None)
NewBindings == [i \in 1..Cardinality(DOMAIN mapping) |-> None]

NextCall ==
    /\ phase = "idle"
    /\ calls < MaxCalls
    /\ calls' = IF doc = <<>> THEN calls ELSE calls + 1
    /\ IF iter = "empty"
       THEN /\ ret' = R("None", "")
            /\ UNCHANGED <<phase, locals, doc_bindings>>
       ELSE /\ phase' = "next"
            /\ state' = "Start"
            /\ new_bindings' = NewBindings
            /\ current_var' = None
            /\ term' = None
            /\ lang' = None
            /\ datatype' = None
            /\ ret' = Pending
            /\ doc_bindings' = EmptyMap
    /\ UNCHANGED <<header, result, iter, mapping, bnodes_map, tokenizer,
                   history, next_id, resolved, writing>>

(***************************************************************************)
(* One iteration of the loop of next().  Each arm gives the outcome of     *)
(* the iteration: the locals, the blank node table and what is returned    *)
(* (Pending: the loop goes on).                                            *)
(***************************************************************************)
Go ==
    [state |-> state, new_bindings |-> new_bindings, current_var |-> current_var,
     term |-> term, lang |-> lang, datatype |-> datatype,
     bnodes_map |-> bnodes_map, next_id |-> next_id, ret |-> Pending]
\* a return drops the locals of the call
Return(r) ==
    [state |-> "Start", new_bindings |-> <<>>, current_var |-> None,
     term |-> None, lang |-> None, datatype |-> None,
     bnodes_map |-> bnodes_map, next_id |-> next_id, ret |-> r]
Panic(msg) == Return(R("Panic", msg))

InvalidIri == "invalid IRI"

\* the <literal> arm: for attr in event.attributes() (xml:lang, datatype)
OnLiteralStart(e) ==
    IF IsSome(e.attr_lang) /\ ~Unescapes(Unwrap(e.attr_lang))
    THEN Return(Err(ReaderFailed))
    ELSE IF IsSome(e.attr_datatype) /\ ~Unescapes(Unwrap(e.attr_datatype))
    THEN Return(Err(ReaderFailed))
    ELSE IF IsSome(e.attr_datatype) /\ ~IriParses(Unwrap(e.attr_datatype))
    THEN Return(Err(InvalidIri))
    ELSE [Go EXCEPT !.state = "Literal",
                    !.lang = IF IsSome(e.attr_lang) THEN e.attr_lang ELSE lang,
                    !.datatype = IF IsSome(e.attr_datatype) THEN e.attr_datatype
                                 ELSE datatype]

\* State::Binding, after the test of term: the name of the value element
OnValueStart(e) ==
    IF e.name = "uri" THEN [Go EXCEPT !.state = "Uri"]
    ELSE IF e.name = "bnode" THEN [Go EXCEPT !.state = "BNode"]
    ELSE IF e.name = "literal" THEN OnLiteralStart(e)
    ELSE Return(Err("Expecting <uri>, <bnode> or <literal> found"))

DuplicateValue == "There is already a value for the current binding"

\* mutant of OnBindingStart: the name of the element is read before term
OnBindingStartNameFirst(e) ==
    IF e.name \notin {"uri", "bnode", "literal"} THEN OnValueStart(e)
    ELSE IF IsSome(term) THEN Return(Err(DuplicateValue))
    ELSE OnValueStart(e)

\* State::Binding => { if term.is_some() { return Err }; if name == .. }
OnBindingStart(e) ==
    IF IsSome(term) THEN Return(Err(DuplicateValue))
    ELSE OnValueStart(e)

\* Event::Start(event) => match state
OnStart(e) ==
    CASE state = "Start" ->
            IF e.name = "result" THEN [Go EXCEPT !.state = "Result"]
            ELSE Return(Err("Expecting <result>, found"))
      [] state = "Result" ->
            IF e.name = "binding"
            THEN IF ~IsSome(e.attr_name)
                 THEN Return(Err("No name attribute found for the <binding> tag"))
                 ELSE IF ~Unescapes(Unwrap(e.attr_name))
                 THEN Return(Err(ReaderFailed))
                 ELSE [Go EXCEPT !.current_var = e.attr_name, !.state = "Binding"]
            ELSE Return(Err("Expecting <binding>, found"))
      [] state = "Binding" -> OnBindingStart(e)
      [] OTHER -> Go

\* BlankNode::default(): a fresh identity
FreshBlankNode == next_id

\* mutant of ResolveBNode: a fresh identity is inserted for every text
ResolveBNodeAlwaysFresh(label) ==
    [Go EXCEPT !.term = Some(BlankNodeTerm(FreshBlankNode)),
               !.bnodes_map = MapInsert(bnodes_map, label, FreshBlankNode),
               !.next_id = next_id + 1]

\* mutant of ResolveBNode: a label seen for the first time is given the
\* identity of the first entry of the session instead of a fresh one
ResolveBNodeSharedIdentity(label) ==
    IF label \in DOMAIN bnodes_map
    THEN [Go EXCEPT !.term = Some(BlankNodeTerm(bnodes_map[label]))]
    ELSE LET id == IF bnodes_map = EmptyMap THEN FreshBlankNode
                   ELSE bnodes_map[CHOOSE l \in DOMAIN bnodes_map : TRUE]
         IN  [Go EXCEPT !.term = Some(BlankNodeTerm(id)),
                        !.bnodes_map = MapInsert(bnodes_map, label, id),
                        !.next_id = IF bnodes_map = EmptyMap
                                    THEN next_id + 1 ELSE next_id]

\* self.bnodes_map.entry(label).or_insert_with(BlankNode::default).clone()
ResolveBNode(label) ==
    IF label \in DOMAIN bnodes_map
    THEN [Go EXCEPT !.term = Some(BlankNodeTerm(bnodes_map[label]))]
    ELSE [Go EXCEPT !.term = Some(BlankNodeTerm(FreshBlankNode)),
                    !.bnodes_map = MapInsert(bnodes_map, label, FreshBlankNode),
                    !.next_id = next_id + 1]

\* mutant of BuildLiteral: the language is tested before the datatype
BuildLiteralLangFirst(value, l, dt) ==
    IF IsSome(l) THEN new_language_tagged_literal(value, Unwrap(l))
    ELSE IF IsSome(dt) THEN new_typed_literal(value, Unwrap(dt))
    ELSE new_simple_literal(value)

\* State::Literal: match datatype { Some => typed, None => match lang {..} }
BuildLiteral(value, l, dt) ==
    IF IsSome(dt) THEN new_typed_literal(value, Unwrap(dt))
    ELSE IF IsSome(l) THEN new_language_tagged_literal(value, Unwrap(l))
    ELSE new_simple_literal(value)

\* Event::Text(event) => match event.unescaped()
OnText(e) ==
    IF ~Unescapes(e.text) THEN Return(Err(ReaderFailed))
    ELSE CASE state = "Uri" ->
                IF IriParses(e.text)
                THEN [Go EXCEPT !.term = Some(NamedNodeTerm(e.text))]
                ELSE Return(Err(InvalidIri))
           [] state = "BNode" -> ResolveBNode(e.text)
           [] state = "Literal" ->
                [Go EXCEPT !.term = Some(BuildLiteral(e.text, lang, datatype))]
           [] OTHER -> Return(Err("Unexpected textual value found"))

MissingValue == "No variable found for variable"

\* new_bindings[self.mapping[var]] = Some(term.clone()); term = None;
\* state = State::Result.  Both indexings panic when out of range.
CommitBinding(var, t) ==
    IF var \notin DOMAIN mapping
    THEN Panic("BTreeMap index: no entry found for key")
    ELSE IF mapping[var] >= Len(new_bindings)
    THEN Panic("index out of bounds")
    ELSE [Go EXCEPT !.new_bindings[mapping[var] + 1] = Some(t),
                    !.term = None,
                    !.state = "Result"]

\* mutant of OnEnd: a <literal> closed with no text is the empty literal
OnEndEmptyLiteral(e) ==
    CASE state = "Start" -> [Go EXCEPT !.state = "End"]
      [] state = "Result" -> Return(R("Row", new_bindings))
      [] state = "Binding" /\ IsSome(current_var) /\ IsSome(term) ->
            CommitBinding(Unwrap(current_var), Unwrap(term))
      [] state = "Binding" -> Return(Err(MissingValue))
      [] state = "Literal" /\ ~IsSome(term) ->
            [Go EXCEPT !.state = "Binding", !.term = Some(new_simple_literal(""))]
      [] state \in {"Uri", "BNode", "Literal"} -> [Go EXCEPT !.state = "Binding"]
      [] OTHER -> Go

\* mutant of OnEnd: the closing of a <result> starts the next row
OnEndKeepsReading(e) ==
    CASE state = "Result" -> [Go EXCEPT !.state = "Start", !.new_bindings = NewBindings]
      [] state = "Binding" /\ IsSome(current_var) /\ IsSome(term) ->
            CommitBinding(Unwrap(current_var), Unwrap(term))
      [] state = "Binding" /\ ~IsSome(term) -> Return(Err(MissingValue))
      [] state \in {"Uri", "BNode", "Literal"} -> [Go EXCEPT !.state = "Binding"]
      [] OTHER -> Go

\* Event::End(_) => match state
OnEnd(e) ==
    CASE state = "Start" -> [Go EXCEPT !.state = "End"]
      [] state = "Result" -> Return(R("Row", new_bindings))
      [] state = "Binding" ->
            IF IsSome(current_var) /\ IsSome(term)
            THEN CommitBinding(Unwrap(current_var), Unwrap(term))
            ELSE IF IsSome(current_var) THEN Return(Err(MissingValue))
            ELSE Return(Err("No name found for <binding> tag"))
      [] state \in {"Uri", "BNode", "Literal"} -> [Go EXCEPT !.state = "Binding"]
      [] OTHER -> Go

\* Event::Eof => return None
OnEof == Return(R("None", ""))

\* match event
NextMatch(e) ==
    CASE e.kind = "Start" -> OnStart(e)
      [] e.kind = "Text" -> OnText(e)
      [] e.kind = "End" -> OnEnd(e)
      [] e.kind = "Eof" -> OnEof
      [] OTHER -> Go

\* the body of the loop: read, test the namespace, match
NextIteration(e) ==
    IF e.kind = "ReadError" THEN Return(Err(ReaderFailed))
    ELSE IF NamespaceMismatch(e) THEN Return(Err(UnexpectedNamespace))
    ELSE NextMatch(e)

\* history: the iteration has resolved the label of a <bnode>
ResolvedLabel(e) ==
    /\ e.kind = "Text"
    /\ Unescapes(e.text)
    /\ state = "BNode"

\* history: the binding the iteration has closed, if it closed one
ClosedBinding(e) ==
    /\ e.kind = "End"
    /\ ~NamespaceMismatch(e)
    /\ state = "Binding"
    /\ IsSome(current_var)
    /\ IsSome(term)

ReadNextEvent(e) ==
    /\ phase = "next"
    /\ Read(e)
    /\ \E o \in {NextIteration(e)} :
        /\ state' = o.state
        /\ new_bindings' = o.new_bindings
        /\ current_var' = o.current_var
        /\ term' = o.term
        /\ lang' = o.lang
        /\ datatype' = o.datatype
        /\ bnodes_map' = o.bnodes_map
        /\ next_id' = o.next_id
        /\ ret' = o.ret
        /\ phase' = IF o.ret = Pending THEN "next"
                    ELSE IF o.ret.kind = "Panic" THEN "aborted" ELSE "idle"
    /\ resolved' = IF ResolvedLabel(e)
                   THEN resolved \cup {<<e.text, Unwrap(term').value>>}
                   ELSE resolved
    /\ doc_bindings' =
            IF ClosedBinding(e)
            THEN MapInsert(doc_bindings, Unwrap(current_var), Unwrap(term))
            ELSE IF ret' = Pending \/ ret'.kind = "Row" THEN doc_bindings
            ELSE EmptyMap
    /\ UNCHANGED <<header, result, iter, mapping, history, calls, writing>>

NextStartEvent == \E e \in RowStartEvents : ReadNextEvent(e)
NextEmptyEvent == \E e \in RowEmptyEvents : ReadNextEvent(e)
NextTextEvent == \E e \in TextEvents(RowTexts) : ReadNextEvent(e)
NextEndEvent == \E e \in EndEvents : ReadNextEvent(e)
NextEof == ReadNextEvent(EofEvent)
NextOtherEvent == ReadNextEvent(OtherEvent)
NextReadError == ReadNextEvent(ReadError)

(***************************************************************************)
(* A parse session is one call of read_xml_results and the iterator it     *)
(* returns.  NewSession: the caller leaves the document and parses         *)
(* another one, from a new reader.                                         *)
(***************************************************************************)
HeaderInit ==
    /\ phase = "header"
    /\ hstate = "Start"
    /\ variables = <<>>
    /\ result = Pending
    /\ iter = "none"
    /\ mapping = EmptyMap
    /\ bnodes_map = EmptyMap
    /\ state = "Start"
    /\ new_bindings = <<>>
    /\ current_var = None
    /\ term = None
    /\ lang = None
    /\ datatype = None
    /\ ret = Pending
    /\ eof = FALSE
    /\ pos = 1
    /\ resolved = {}
    /\ doc_bindings = EmptyMap
    /\ calls = 0

\* no serializer, no writer, an empty sink
WriterInit ==
    /\ serializer = None
    /\ formatter = None
    /\ open_block = None
    /\ sink = <<>>
    /\ wret = Pending
    /\ wlife = "new"
    /\ wcalls = 0
    /\ submitted = <<>>
    /\ driven = {}

Init ==
    /\ HeaderInit
    /\ WriterInit
    /\ doc = <<>>
    /\ session = 1
    /\ next_id = 1
    /\ old_ids = {}

NewSession ==
    /\ phase \in {"idle", "done"}
    /\ session < MaxSessions
    /\ phase' = "header"
    /\ hstate' = "Start"
    /\ variables' = <<>>
    /\ result' = Pending
    /\ iter' = "none"
    /\ mapping' = EmptyMap
    /\ bnodes_map' = EmptyMap
    /\ state' = "Start"
    /\ new_bindings' = <<>>
    /\ current_var' = None
    /\ term' = None
    /\ lang' = None
    /\ datatype' = None
    /\ ret' = Pending
    /\ eof' = FALSE
    /\ pos' = 1
    /\ resolved' = {}
    /\ doc_bindings' = EmptyMap
    /\ calls' = 0
    /\ session' = session + 1
    /\ old_ids' = old_ids \cup Range(bnodes_map)
    /\ UNCHANGED <<next_id, doc, writing>>

Next ==
    \/ HeaderStartEvent
    \/ HeaderEmptyEvent
    \/ HeaderTextEvent
    \/ HeaderEndEvent
    \/ HeaderEof
    \/ HeaderOtherEvent
    \/ HeaderReadError
    \/ NextCall
    \/ NextStartEvent
    \/ NextEmptyEvent
    \/ NextTextEvent
    \/ NextEndEvent
    \/ NextEof
    \/ NextOtherEvent
    \/ NextReadError

Spec == Init /\ [][Next]_vars

(***************************************************************************)
(* Parses of given documents.  A document is the sequence of its events;   *)
(* its elements carry no namespace.                                        *)
(***************************************************************************)
Open(name) == Ev("Start", None, name, None, None, None, "")
Close == Ev("End", None, "", None, None, None, "")
SelfClosing(name) == Ev("Empty", None, name, None, None, None, "")
Variable(n) == Ev("Empty", None, "variable", Some(n), None, None, "")
Binding(n) == Ev("Start", None, "binding", Some(n), None, None, "")
Literal(al, ad) == Ev("Start", None, "literal", None, al, ad, "")
Text(t) == Ev("Text", None, "", None, None, None, t)

\* <sparql> head <boolean> body </boolean></sparql>
BooleanDoc(head, body) ==
    <<Open("sparql")>> \o head \o <<Open("boolean")>> \o body \o <<Close, Close>>
EmptyHead == <<Open("head"), Close>>
SelfClosingHead == <<SelfClosing("head")>>
BooleanBodies == {<<Text(t)>> : t \in HeaderTexts} \cup {<<Open("other"), Close>>}
BooleanDocs ==
    {BooleanDoc(head, body) :
        head \in {EmptyHead, SelfClosingHead}, body \in BooleanBodies}

\* the attributes of a <literal>: <<xml:lang, datatype>>
LiteralAttrs == Opt(Langs) \X Opt({XsdInteger})

\* variables x, y and one <result> that binds x and y to two literals "1"
\* of attributes a1 and a2
LiteralsDoc(a1, a2) ==
    <<Open("sparql"), Open("head"), Variable("x"), Variable("y"), Close,
      Open("results"), Open("result"),
      Binding("x"), Literal(a1[1], a1[2]), Text("1"), Close, Close,
      Binding("y"), Literal(a2[1], a2[2]), Text("1"), Close, Close,
      Close, Close, Close>>
LiteralsDocs == {LiteralsDoc(a1, a2) : a1 \in LiteralAttrs, a2 \in LiteralAttrs}

\* the header that declares x and opens <results>
HeaderX ==
    <<Open("sparql"), Open("head"), Variable("x"), Close, Open("results")>>

\* the i-th valid <result>: x bound to a uri (i odd) or to a plain literal
ValidResult(i) ==
    IF i % 2 = 1
    THEN <<Open("result"), Binding("x"), Open("uri"), Text(ExampleIri),
           Close, Close, Close>>
    ELSE <<Open("result"), Binding("x"), Literal(None, None), Text("1"),
           Close, Close, Close>>
ValidRow(i) ==
    IF i % 2 = 1 THEN <<Some(NamedNodeTerm(ExampleIri))>>
    ELSE <<Some(new_simple_literal("1"))>>

RECURSIVE ValidResults(_)
ValidResults(n) == IF n = 0 THEN <<>> ELSE ValidResults(n - 1) \o ValidResult(n)

\* malformed <result> elements; the last event is the offending one
MalformedResults ==
    {<<Open("result"), Open("other")>>,
     <<Open("result"), Binding("x"), Close>>,
     <<Open("result"), Text("1")>>}

\* n valid <result> elements, then a malformed one
RowsThenBad(n, bad) == HeaderX \o ValidResults(n) \o bad
RowsThenBadDocs ==
    {RowsThenBad(n, bad) : n \in 0..MaxRows, bad \in MalformedResults}

\* a self-closing <link/> between the head and <boolean> or <results>
LinkBooleanDoc ==
    <<Open("sparql"), Open("head"), Close, SelfClosing("link"),
      Open("boolean"), Text("true"), Close, Close>>
LinkResultsDoc ==
    <<Open("sparql"), Open("head"), Variable("x"), Close, SelfClosing("link"),
      Open("results"), Close, Close>>
LinkDocs == {LinkBooleanDoc, LinkResultsDoc}

\* the ways a <result> element is written: self-closing, opened and closed
\* with no binding, opened and closed with a binding of x
ResultShapes == {"selfclosing", "empty", "bound"}
ShapeSeqs == UNION {[1..n -> ResultShapes] : n \in 0..MaxRows}
ResultEvents(shape, i) ==
    CASE shape = "selfclosing" -> <<SelfClosing("result")>>
      [] shape = "empty" -> <<Open("result"), Close>>
      [] shape = "bound" -> ValidResult(i)

RECURSIVE ResultsEvents(_, _)
ResultsEvents(shapes, n) ==
    IF n = 0 THEN <<>>
    ELSE ResultsEvents(shapes, n - 1) \o ResultEvents(shapes[n], n)

\* a valid document: the <result> elements of these shapes, </results>,
\* </sparql>
ResultsDoc(shapes) ==
    HeaderX \o ResultsEvents(shapes, Len(shapes)) \o <<Close, Close>>
ResultsDocs == {ResultsDoc(shapes) : shapes \in ShapeSeqs}

TestDocuments ==
    BooleanDocs \cup LiteralsDocs \cup RowsThenBadDocs \cup LinkDocs
    \cup ResultsDocs

DocInit ==
    /\ HeaderInit
    /\ WriterInit
    /\ doc \in TestDocuments
    /\ session = 1
    /\ next_id = 1
    /\ old_ids = {}

DocReadHeader == ReadHeaderEvent(Upcoming)
DocReadNext == ReadNextEvent(Upcoming)

DocNext ==
    \/ DocReadHeader
    \/ DocReadNext
    \/ NextCall

DocSpec == DocInit /\ [][DocNext]_vars

(***************************************************************************)
(* Parse sessions one after the other, of documents whose bindings are     *)
(* blank nodes: one variable x, the texts of RowTexts as labels.           *)
(***************************************************************************)
SessionHeaderEvents ==
    {Open("sparql"), Open("head"), Variable("x"), Close, Open("results")}
SessionRowEvents ==
    {Open("result"), Binding("x"), Open("bnode"), Close, EofEvent}
    \cup {Text(t) : t \in RowTexts}

SessionReadHeader == \E e \in SessionHeaderEvents : ReadHeaderEvent(e)
SessionReadNext == \E e \in SessionRowEvents : ReadNextEvent(e)

SessionNext ==
    \/ SessionReadHeader
    \/ NextCall
    \/ SessionReadNext
    \/ NewSession

SessionSpec == Init /\ [][SessionNext]_vars

(***************************************************************************)
(* io/write.rs: GraphSerializer, TripleWriter, DatasetSerializer,          *)
(* QuadWriter.  The encoders (rio_turtle, rio_xml) are not part of the     *)
(* sources: they are modelled by the tokens they append to the sink, and   *)
(* each of their fallible operations may fail.                             *)
(***************************************************************************)
GraphSyntaxes == {"NTriples", "Turtle", "RdfXml"}
DatasetSyntaxes == {"NQuads", "TriG"}

Subjects == {"http://example.com/s", "http://example.com/t"}
Predicate == "http://example.com/p"
Object == "http://example.com/o"
GraphName == "http://example.com/g"
Triple(s) == [subject |-> s, predicate |-> Predicate, object |-> Object,
              graph_name |-> None]
Quad(s) == [subject |-> s, predicate |-> Predicate, object |-> Object,
            graph_name |-> Some(GraphName)]
Triples == {Triple(s) : s \in Subjects}
Quads == {Quad(s) : s \in Subjects}

\* io::Error; inner: the RdfXmlError it was made from, if any
IoError(kind, inner) == [kind |-> kind, inner |-> inner]
\* the failures of the sink
SinkErrors == {IoError("BrokenPipe", None), IoError("Other", None)}
\* RdfXmlError: a failure of the sink or of the XML writer
RdfXmlErrors == {[variant |-> "Io", kind |-> e.kind] : e \in SinkErrors}
                \cup {[variant |-> "Xml", kind |-> "quick_xml"]}
\* Ok(()) of Result<(), io::Error>
Ok == [kind |-> "Ok", inner |-> None]

\* the Result of an operation of an encoder
FOk == [ok |-> TRUE, err |-> None]
FErr(e) == [ok |-> FALSE, err |-> Some(e)]

\* mutant of map_xml_err: the kind of the failure of the sink is kept
map_xml_err_keeps_kind(e) == IoError(e.kind, Some(e))

\* fn map_xml_err(e: RdfXmlError) -> io::Error
map_xml_err(e) == IoError("Other", Some(e))

\* the tokens of the encoders
Iri(i) == "<" \o i \o ">"
NTriplesLine(t) ==
    Iri(t.subject) \o " " \o Iri(t.predicate) \o " " \o Iri(t.object) \o " .\n"
NQuadsLine(q) ==
    Iri(q.subject) \o " " \o Iri(q.predicate) \o " " \o Iri(q.object) \o " "
    \o Iri(Unwrap(q.graph_name)) \o " .\n"
RdfRoot == "<rdf:RDF>"
RdfRootEnd == "</rdf:RDF>"
Description(s) == "<rdf:Description rdf:about='" \o s \o "'>"
DescriptionEnd == "</rdf:Description>"
Property(t) == "<" \o t.predicate \o " rdf:resource='" \o t.object \o "'/>"
PredicateObject(t) == Iri(t.predicate) \o " " \o Iri(t.object)
GraphOpen(q) == Iri(Unwrap(q.graph_name)) \o " {"
GraphEnd == "}"
StatementEnd == " ."
SameSubject == " ;"

\* Formatter::new(writer): the tokens written, and the results it may have
NewTokens(kind) == IF kind = "RdfXml" THEN <<RdfRoot>> ELSE <<>>
NewResults(kind) ==
    IF kind = "RdfXml" THEN {FOk} \cup {FErr(e) : e \in RdfXmlErrors}
    ELSE {FOk}

\* the subject (and graph) a statement belongs to
Block(kind, t) == IF kind = "TriG" THEN <<t.graph_name, t.subject>>
                  ELSE <<t.subject>>

\* the tokens that close the block left open
CloseTokens(kind, open) ==
    IF ~IsSome(open) THEN <<>>
    ELSE CASE kind = "Turtle" -> <<StatementEnd>>
           [] kind = "TriG" -> <<StatementEnd, GraphEnd>>
           [] kind = "RdfXml" -> <<DescriptionEnd>>
           [] OTHER -> <<>>

\* formatter.format(statement): the tokens written
FormatTokens(kind, open, t) ==
    CASE kind = "NTriples" -> <<NTriplesLine(t)>>
      [] kind = "NQuads" -> <<NQuadsLine(t)>>
      [] kind = "Turtle" ->
            IF open = Some(Block(kind, t)) THEN <<SameSubject, PredicateObject(t)>>
            ELSE CloseTokens(kind, open) \o <<Iri(t.subject), PredicateObject(t)>>
      [] kind = "TriG" ->
            IF open = Some(Block(kind, t)) THEN <<SameSubject, PredicateObject(t)>>
            ELSE CloseTokens(kind, open)
                 \o <<GraphOpen(t), Iri(t.subject), PredicateObject(t)>>
      [] kind = "RdfXml" ->
            IF open = Some(Block(kind, t)) THEN <<Property(t)>>
            ELSE CloseTokens(kind, open) \o <<Description(t.subject), Property(t)>>
\* the block left open by format
FormatOpens(kind, t) ==
    IF kind \in {"NTriples", "NQuads"} THEN None ELSE Some(Block(kind, t))
\* the results format may have
FormatResults(kind) ==
    {FOk} \cup {FErr(e) : e \in IF kind = "RdfXml" THEN RdfXmlErrors
                                 ELSE SinkErrors}

\* formatter.finish(): the tokens written, and the results it may have
\* (finish of NTriplesFormatter and NQuadsFormatter returns the sink)
FinishTokens(kind, open) ==
    CloseTokens(kind, open) \o (IF kind = "RdfXml" THEN <<RdfRootEnd>> ELSE <<>>)
FinishResults(kind) ==
    IF kind \in {"NTriples", "NQuads"} THEN {FOk} ELSE FormatResults(kind)

\* what a failed operation of an encoder may have written: any proper
\* prefix of the tokens
Prefixes(tokens) == {SubSeq(tokens, 1, n) : n \in 0..(Len(tokens) - 1)}

\* GraphSerializer::from_syntax, DatasetSerializer::from_syntax
from_syntax(syntax) ==
    /\ wlife = "new"
    /\ ~IsSome(serializer)
    /\ serializer' = Some(syntax)
    /\ UNCHANGED <<formatter, open_block, sink, wret, wlife, wcalls,
                   submitted, driven, reading>>
GraphSerializer_from_syntax == \E syntax \in GraphSyntaxes : from_syntax(syntax)
DatasetSerializer_from_syntax == \E syntax \in DatasetSyntaxes : from_syntax(syntax)

\* mutant of TripleWriterKind: Turtle is written by the N-Triples encoder
TripleWriterKindNTriples(syntax) ==
    IF syntax = "RdfXml" THEN "RdfXml" ELSE "NTriples"

\* formatter: match self.syntax { .. } of triple_writer
TripleWriterKind(syntax) ==
    CASE syntax = "NTriples" -> "NTriples"
      [] syntax = "Turtle" -> "Turtle"
      [] syntax = "RdfXml" -> "RdfXml"

\* formatter: match self.syntax { .. } of quad_writer
QuadWriterKind(syntax) ==
    CASE syntax = "NQuads" -> "NQuads"
      [] syntax = "TriG" -> "TriG"

\* GraphSerializer::triple_writer
triple_writer ==
    /\ wlife = "new"
    /\ IsSome(serializer)
    /\ Unwrap(serializer) \in GraphSyntaxes
    /\ \E kind \in {TripleWriterKind(Unwrap(serializer))} :
       \E r \in NewResults(kind) :
            IF r.ok
            THEN /\ formatter' = Some(kind)
                 /\ sink' = sink \o NewTokens(kind)
                 /\ wret' = Ok
                 /\ wlife' = "created"
            ELSE /\ formatter' = None
                 /\ sink' \in {sink \o p : p \in Prefixes(NewTokens(kind))}
                 /\ wret' = map_xml_err(Unwrap(r.err))
                 /\ wlife' = "failed"
    /\ UNCHANGED <<serializer, open_block, wcalls, submitted, driven, reading>>

\* DatasetSerializer::quad_writer
quad_writer ==
    /\ wlife = "new"
    /\ IsSome(serializer)
    /\ Unwrap(serializer) \in DatasetSyntaxes
    /\ formatter' = Some(QuadWriterKind(Unwrap(serializer)))
    /\ sink' = sink \o NewTokens(QuadWriterKind(Unwrap(serializer)))
    /\ wret' = Ok
    /\ wlife' = "created"
    /\ UNCHANGED <<serializer, open_block, wcalls, submitted, driven, reading>>

\* the io::Error returned for the failure e of the encoder of that kind:
\* .map_err(map_xml_err)? for RdfXml, ? alone for the others
Propagate(kind, e) == IF kind = "RdfXml" THEN map_xml_err(e) ELSE e

\* match &mut self.formatter { .. => formatter.format(..)? }; Ok(())
Write(kind, t) ==
    /\ wcalls' = wcalls + 1
    /\ driven' = driven \cup {kind}
    /\ \E r \in FormatResults(kind) :
            IF r.ok
            THEN /\ sink' = sink \o FormatTokens(kind, open_block, t)
                 /\ open_block' = FormatOpens(kind, t)
                 /\ submitted' = Append(submitted, t)
                 /\ wret' = Ok
            ELSE /\ sink' \in {sink \o p :
                                 p \in Prefixes(FormatTokens(kind, open_block, t))}
                 /\ wret' = Propagate(kind, Unwrap(r.err))
                 /\ UNCHANGED <<open_block, submitted>>
    /\ UNCHANGED <<serializer, formatter, wlife, reading>>

\* match self.formatter { .. => formatter.finish().. }; Ok(())
\* (self is taken by value: the writer is consumed)
Finish(kind) ==
    /\ driven' = driven \cup {kind}
    /\ formatter' = None
    /\ wlife' = "finished"
    /\ \E r \in FinishResults(kind) :
            IF r.ok
            THEN /\ sink' = sink \o FinishTokens(kind, open_block)
                 /\ open_block' = None
                 /\ wret' = Ok
            ELSE /\ sink' \in {sink \o p :
                                 p \in Prefixes(FinishTokens(kind, open_block))}
                 /\ open_block' = open_block
                 /\ wret' = Propagate(kind, Unwrap(r.err))
    /\ UNCHANGED <<serializer, wcalls, submitted, reading>>

\* mutant of TripleWriter_write: the statement is formatted twice
TripleWriter_write_twice ==
    /\ IsSome(formatter)
    /\ Unwrap(formatter) \in GraphSyntaxes
    /\ wcalls < MaxWrites
    /\ \E t \in Triples :
        /\ wcalls' = wcalls + 1
        /\ driven' = driven \cup formatter
        /\ sink' = sink \o FormatTokens(Unwrap(formatter), open_block, t)
                        \o FormatTokens(Unwrap(formatter),
                                        FormatOpens(Unwrap(formatter), t), t)
        /\ open_block' = FormatOpens(Unwrap(formatter), t)
        /\ submitted' = Append(submitted, t)
        /\ wret' = Ok
    /\ UNCHANGED <<serializer, formatter, wlife, reading>>

\* TripleWriter::write
TripleWriter_write ==
    /\ IsSome(formatter)
    /\ Unwrap(formatter) \in GraphSyntaxes
    /\ wcalls < MaxWrites
    /\ \E t \in Triples : Write(Unwrap(formatter), t)

\* TripleWriter::finish
TripleWriter_finish ==
    /\ IsSome(formatter)
    /\ Unwrap(formatter) \in GraphSyntaxes
    /\ Finish(Unwrap(formatter))

\* QuadWriter::write
QuadWriter_write ==
    /\ IsSome(formatter)
    /\ Unwrap(formatter) \in DatasetSyntaxes
    /\ wcalls < MaxWrites
    /\ \E q \in Quads : Write(Unwrap(formatter), q)

\* QuadWriter::finish
QuadWriter_finish ==
    /\ IsSome(formatter)
    /\ Unwrap(formatter) \in DatasetSyntaxes
    /\ Finish(Unwrap(formatter))

WriterNext ==
    \/ GraphSerializer_from_syntax
    \/ DatasetSerializer_from_syntax
    \/ triple_writer
    \/ quad_writer
    \/ TripleWriter_write
    \/ TripleWriter_finish
    \/ QuadWriter_write
    \/ QuadWriter_finish

WriterSpec == Init /\ [][WriterNext]_vars

(***************************************************************************)
(* Properties of the reader.                                               *)
(***************************************************************************)
Distinct(vs) == \A i, j \in DOMAIN vs : vs[i] = vs[j] => i = j

\* the row a <result> element stands for: slot i holds the term of the
\* binding of the i-th variable declared, None when there is none
RowOf(vs, bindings) ==
    [i \in 1..Len(vs) |-> IF vs[i] \in DOMAIN bindings
                          THEN Some(bindings[vs[i]]) ELSE None]

\* C1: when the header declares pairwise distinct variables, the row being
\* built by next(), and the row it returns, hold at slot i the term of the
\* binding of the i-th variable closed in this <result>, and None when no
\* binding of that variable was closed: a commit changes the slot of its
\* variable only.
C1_RowSlots ==
    (iter = "results" /\ Distinct(variables)) =>
        /\ phase = "next" => new_bindings = RowOf(variables, doc_bindings)
        /\ ret.kind = "Row" => ret.val = RowOf(variables, doc_bindings)

\* C1, witness: variables x, y and the single binding
\* x = "1"^^xsd:integer give the row [typed-literal("1", xsd:integer), None]
C1_Witness ==
    /\ variables = <<"x", "y">>
    /\ DOMAIN doc_bindings = {"x"}
    /\ ret = R("Row", <<Some(new_typed_literal("1", XsdInteger)), None>>)

\* C2: the document <sparql><head/><boolean>B</boolean></sparql>, its head
\* self-closing, parses to Boolean(true) when B is "true", to Boolean(false)
\* when B is "false", and to an error for any other text B and for an
\* element nested in <boolean>.
C2_SelfClosingHeadBoolean ==
    \A body \in BooleanBodies :
        (doc = BooleanDoc(SelfClosingHead, body) /\ result /= Pending) =>
            result = CASE body = <<Text("true")>> -> R("Boolean", TRUE)
                       [] body = <<Text("false")>> -> R("Boolean", FALSE)
                       [] OTHER -> Err(result.val)

\* C3: within a parse session the texts of <bnode> with the same label all
\* resolve to the same identity, an entry of the blank node table is never
\* changed or removed, and the table of a session starts empty: no label
\* resolves to an identity of an earlier session.
C3_BNodeIdentity ==
    /\ [](\A p, q \in resolved : p[1] = q[1] => p[2] = q[2])
    /\ [](\A p \in resolved : p[2] \notin old_ids)
    /\ [][session' = session =>
            \A l \in DOMAIN bnodes_map :
                l \in DOMAIN bnodes_map' /\ bnodes_map'[l] = bnodes_map[l]]_vars
    /\ [][(phase = "header" /\ iter' = "results") => bnodes_map' = EmptyMap]_vars

\* C3, witness: in a second session the label "1" resolves a second time,
\* after a binding of it was closed, to the identity it resolved to before,
\* which is not the identity allocated in the first session
C3_Witness ==
    /\ session = 2
    /\ old_ids = {1}
    /\ DOMAIN bnodes_map = {"1"}
    /\ doc_bindings = [n \in {"x"} |-> BlankNodeTerm(2)]
    /\ state = "BNode"
    /\ term = Some(BlankNodeTerm(2))

\* the events that carry a namespace: the elements a header is made of
HeaderElementEvents == HeaderStartEvents \cup HeaderEmptyEvents \cup EndEvents

\* C4: in the header parser, an element event in a namespace other than
\* the results namespace makes read_xml_results return the namespace
\* error, whatever the state of the parser and the name of the element, and
\* before the element is interpreted: the state and the variable list are
\* left as they were, and no row sequence is returned.
C4_NamespaceFirst ==
    [][phase = "header" =>
          \A e \in HeaderElementEvents :
              (NamespaceMismatch(e) /\ ReadHeaderEvent(e)) =>
                  /\ result' = Err(UnexpectedNamespace)
                  /\ iter' = "none"
                  /\ UNCHANGED <<hstate, variables>>]_vars

\* C4, witness: the namespace error returned after two variables were
\* declared, none of them lost or added
C4_Witness ==
    /\ result = Err(UnexpectedNamespace)
    /\ hstate = "Head"
    /\ variables = <<"x", "y">>

\* C5: when the binding being closed names a variable the header did not
\* declare, the call of next() returns an error value (no panic, no row).
C5_UnknownVariableIsError ==
    [][(/\ phase = "next"
        /\ state = "Binding"
        /\ IsSome(current_var)
        /\ Unwrap(current_var) \notin Range(variables)
        /\ \E e \in EndEvents : ReadNextEvent(e)) => ret'.kind = "Err"]_vars

\* C6: every row returned has as many slots as the header declared
\* variables, duplicates included, and no commit writes outside the row.
C6_RowLength ==
    /\ ret.kind = "Row" => Len(ret.val) = Len(variables)
    /\ ret /= R("Panic", "index out of bounds")

\* C7: the end of the input met inside a <result>, a <binding> or a value
\* element makes next() return an error, never None.
C7_PrematureEofIsError ==
    [][(/\ phase = "next"
        /\ state \in {"Result", "Binding", "Uri", "BNode", "Literal"}
        /\ ReadNextEvent(EofEvent)) => ret'.kind = "Err"]_vars

\* the opening <literal> elements of the results namespace whose
\* attributes decode
LiteralStartEvents ==
    {e \in RowStartEvents :
        /\ e.name = "literal"
        /\ ~NamespaceMismatch(e)
        /\ IsSome(e.attr_lang) => Unescapes(Unwrap(e.attr_lang))
        /\ IsSome(e.attr_datatype) => IriParses(Unwrap(e.attr_datatype))}

\* the literal "1" of the attributes a = <<xml:lang, datatype>> alone
OwnLiteral(a) ==
    CASE IsSome(a[2]) -> Term("Literal", "1", None, a[2])
      [] ~IsSome(a[2]) /\ IsSome(a[1]) -> Term("Literal", "1", a[1], None)
      [] OTHER -> Term("Literal", "1", None, None)

\* C8: each literal of a result is built from its text and from the
\* xml:lang and datatype of its own <literal> element: the row of a
\* <result> that binds x and y to two literals is the two literals of
\* these attributes, whatever the attributes of the other one are.
C8_LiteralOwnAttributes ==
    \A a1, a2 \in LiteralAttrs :
        (doc = LiteralsDoc(a1, a2) /\ ret.kind = "Row") =>
            ret.val = <<Some(OwnLiteral(a1)), Some(OwnLiteral(a2))>>

\* C9: in every state next() can be in, the text of a <literal> read with
\* the captured attributes lang and datatype gives the typed literal of
\* that datatype when a datatype is captured (the language is dropped),
\* else the language-tagged literal when a language is captured, else the
\* plain literal; and a <literal> that sets both attributes is accepted.
C9_LiteralPrecedence ==
    /\ (phase = "next" /\ state = "Literal") =>
          \A e \in TextEvents(RowTexts) :
              Unescapes(e.text) =>
                  /\ NextIteration(e).ret = Pending
                  /\ NextIteration(e).term = Some(
                       CASE IsSome(datatype) ->
                              Term("Literal", e.text, None, datatype)
                         [] ~IsSome(datatype) /\ IsSome(lang) ->
                              Term("Literal", e.text, lang, None)
                         [] OTHER -> Term("Literal", e.text, None, None))
    /\ (phase = "next" /\ state = "Binding" /\ ~IsSome(term)) =>
          \A e \in LiteralStartEvents :
              (IsSome(e.attr_lang) /\ IsSome(e.attr_datatype)) =>
                  /\ NextIteration(e).ret = Pending
                  /\ NextIteration(e).state = "Literal"

\* C9, witness: a typed literal built while a language is captured too
C9_Witness ==
    /\ state = "Literal"
    /\ lang = Some("en")
    /\ datatype = Some(XsdInteger)
    /\ term = Some(Term("Literal", "1", None, Some(XsdInteger)))

\* C10: in every state next() can be in inside a binding, an element of
\* the results namespace opened after a term was captured makes it return
\* the duplicate-value error, whatever the name of the element, and the
\* closing of the binding with no term captured makes it return the
\* missing-value error.  No row is returned by such a call.
C10_BindingValueCount ==
    /\ (phase = "next" /\ state = "Binding" /\ IsSome(term)) =>
          \A e \in RowStartEvents :
              ~NamespaceMismatch(e) =>
                  NextIteration(e).ret = Err(DuplicateValue)
    /\ (phase = "next" /\ state = "Binding" /\ ~IsSome(term)) =>
          \A e \in EndEvents :
              ~NamespaceMismatch(e) =>
                  NextIteration(e).ret = Err(MissingValue)

\* C10, witness: the duplicate-value error was returned
C10_Witness == ret = Err(DuplicateValue)

\* C11: after the head, a self-closing <results/> makes read_xml_results
\* return the variable list with a row sequence that is exhausted: every
\* call of next() on it returns None and reads nothing of the document,
\* and no row and no error ever comes out of it.
C11_EmptyResults ==
    /\ []((phase = "header" /\ hstate = "AfterHead") =>
            HeaderIteration(SelfClosing("results")) = HBindings("empty"))
    /\ [](iter = "empty" =>
            /\ result = R("Bindings", variables)
            /\ phase = "idle"
            /\ ret \in {Pending, R("None", "")})
    /\ [][iter = "empty" =>
            /\ ret' = R("None", "")
            /\ UNCHANGED <<tokenizer, result, iter, variables>>]_vars

\* C11, witness: next() of the sequence returned for <results/> after two
\* declared variables has returned None, the document not being at its end
C11_Witness ==
    /\ iter = "empty"
    /\ result = R("Bindings", <<"x", "y">>)
    /\ ret = R("None", "")
    /\ ~eof

\* the opening tag e is not one the state of next() expects
UnexpectedOpening(e) ==
    \/ state = "Start" /\ e.name /= "result"
    \/ state = "Result" /\ e.name /= "binding"
    \/ state = "Binding" /\ e.name \notin {"uri", "bnode", "literal"}
    \/ state \in {"Uri", "BNode", "Literal", "End"}

\* C12: in every state of next(), the iteration that reads an opening tag
\* the state does not expect returns an error: also inside <uri>, <bnode>, <literal>
\* and after the closing tag that ended the row sequence.
C12_UnexpectedOpeningIsError ==
    phase = "next" =>
        \A e \in RowStartEvents :
            UnexpectedOpening(e) => NextIteration(e).ret.kind = "Err"

\* the position of the tokenizer after the i-th valid <result> of
\* RowsThenBad(n, bad), and after the offending event
AfterRow(i) == Len(HeaderX \o ValidResults(i)) + 1
AfterOffending(n, bad) == Len(RowsThenBad(n, bad)) + 1

\* C13: on a document of n valid <result> elements followed by a malformed
\* one, call number i of next(), i <= n, returns the row of the i-th result
\* having read up to its closing tag, and call number n + 1 returns an
\* error having read up to the offending event: no error before that call.
C13_ErrorOnItsCall ==
    \A n \in 0..MaxRows, bad \in MalformedResults :
        (doc = RowsThenBad(n, bad) /\ phase = "idle") =>
            /\ (1 <= calls /\ calls <= n) =>
                    ret = R("Row", ValidRow(calls)) /\ pos = AfterRow(calls)
            /\ calls = n + 1 =>
                    ret.kind = "Err" /\ pos = AfterOffending(n, bad)

\* C13, witness: two rows were returned, then the third call returned the
\* error of a binding closed with no value
C13_Witness ==
    /\ doc = RowsThenBad(2, <<Open("result"), Binding("x"), Close>>)
    /\ calls = 3
    /\ ret = Err(MissingValue)

\* C17: a self-closing <link/> after the head changes nothing: the
\* <boolean> or the <results> that follows it is parsed as without it.
C17_LinkAfterHeadIsNoOp ==
    /\ (doc = LinkBooleanDoc /\ result /= Pending) => result = R("Boolean", TRUE)
    /\ (doc = LinkResultsDoc /\ result /= Pending) =>
            result = R("Bindings", <<"x">>) /\ iter = "results"

\* C18: in state Head, for the elements of the results namespace: a
\* self-closing <variable> appends its name (a name that unescapes) at the
\* end of the list and one without a name is an error; a self-closing
\* <link> changes nothing; every other self-closing element is an error;
\* every opening tag is an error, the must-be-self-closing one for
\* <variable> and <link>; a closing tag moves to AfterHead.  The list
\* returned with the rows is the list so built.
C18_HeadRules ==
    /\ (phase = "header" /\ hstate = "Head") =>
        /\ \A e \in HeaderEmptyEvents :
            ~NamespaceMismatch(e) =>
                HeaderIteration(e) =
                    CASE e.name = "variable" /\ IsSome(e.attr_name)
                         /\ Unescapes(Unwrap(e.attr_name)) ->
                            HContinue("Head", Append(variables, Unwrap(e.attr_name)))
                      [] e.name = "variable" /\ IsSome(e.attr_name) ->
                            HReturn(Err(HeaderIteration(e).result.val))
                      [] e.name = "variable" ->
                            HReturn(Err("No name attribute found for the <variable> tag"))
                      [] e.name = "link" -> HContinue("Head", variables)
                      [] OTHER -> HReturn(Err("Expecting <variable> or <link> tag"))
        /\ \A e \in HeaderStartEvents :
            ~NamespaceMismatch(e) =>
                HeaderIteration(e) =
                    IF e.name \in {"variable", "link"}
                    THEN HReturn(Err("<variable> and <link> tag should be autoclosing"))
                    ELSE HReturn(Err("Expecting <variable> or <link> tag"))
        /\ \A e \in EndEvents :
            ~NamespaceMismatch(e) =>
                HeaderIteration(e) = HContinue("AfterHead", variables)
    /\ result.kind = "Bindings" => result.val = variables

\* C18, witness: y then x were declared and the list returned with the
\* rows is y, x
C18_Witness ==
    /\ result = R("Bindings", <<"y", "x">>)
    /\ iter = "results"

\* every event the header parser may read
AllHeaderEvents ==
    HeaderStartEvents \cup HeaderEmptyEvents \cup TextEvents(HeaderTexts)
    \cup EndEvents \cup {EofEvent, OtherEvent, ReadError}

\* C19: the header parser changes state only from Start to Sparql on the
\* opening of <sparql>, from Sparql to Head on the opening of <head>, from
\* Head to AfterHead on a closing tag, from AfterHead to Boolean on the
\* opening of <boolean>; it returns a Boolean only in state Boolean, on a
\* text, and a variable list only in state AfterHead, on <results>; the
\* end of the input is an error in every state, as is a closing tag
\* outside Head and a text outside Boolean.
C19_HeaderOrder ==
    /\ phase = "header" =>
        \A e \in AllHeaderEvents :
            /\ HeaderIteration(e).hstate /= hstate =>
                    \/ hstate = "Start" /\ e.kind = "Start" /\ e.name = "sparql"
                          /\ HeaderIteration(e).hstate = "Sparql"
                    \/ hstate = "Sparql" /\ e.kind = "Start" /\ e.name = "head"
                          /\ HeaderIteration(e).hstate = "Head"
                    \/ hstate = "Head" /\ e.kind = "End"
                          /\ HeaderIteration(e).hstate = "AfterHead"
                    \/ hstate = "AfterHead" /\ e.kind = "Start" /\ e.name = "boolean"
                          /\ HeaderIteration(e).hstate = "Boolean"
            /\ HeaderIteration(e).result.kind = "Boolean" =>
                    hstate = "Boolean" /\ e.kind = "Text"
            /\ HeaderIteration(e).result.kind = "Bindings" =>
                    hstate = "AfterHead" /\ e.name = "results"
            /\ e.kind = "Eof" => HeaderIteration(e).result = Err(EarlyFileEnd)
            /\ (e.kind = "End" /\ hstate /= "Head") =>
                    HeaderIteration(e).result.kind = "Err"
            /\ (e.kind = "Text" /\ hstate /= "Boolean") =>
                    HeaderIteration(e).result.kind = "Err"
    /\ result.kind = "Boolean" => hstate = "Boolean"
    /\ result.kind = "Bindings" => hstate = "AfterHead"
    /\ hstate = "Start" => result.kind \in {"Pending", "Err"}

\* C19, witness: the end of the input was met after the head and the
\* error was returned
C19_Witness ==
    /\ hstate = "AfterHead"
    /\ eof
    /\ result = Err(EarlyFileEnd)

\* C20: the events of a document are read one by one, forwards, and only
\* inside read_xml_results and the calls of next(); read_xml_results
\* returns the row sequence having read the opening <results> last; a call
\* of next() that returns a row has read the closing tag of a <result>
\* last, the one of the row returned: nothing after it is read until the
\* next call.
C20_LazySinglePass ==
    /\ [][pos' \in {pos, pos + 1}]_vars
    /\ [][(phase \in {"idle", "done", "aborted"}) => UNCHANGED pos]_vars
    /\ []((iter = "results" /\ phase = "idle" /\ calls = 0) =>
            doc[pos - 1] = Open("results"))
    /\ []((phase = "idle" /\ ret.kind = "Row") => doc[pos - 1] = Close)
    /\ [](\A n \in 0..MaxRows, bad \in MalformedResults :
            (doc = RowsThenBad(n, bad) /\ phase = "idle") =>
                /\ calls = 0 => pos = Len(HeaderX) + 1
                /\ ret.kind = "Row" => pos = AfterRow(calls))

\* C20, witness: the caller stopped after the first of two rows; the
\* second <result> and the malformed one after it are unread
C20_Witness ==
    /\ doc = RowsThenBad(2, <<Open("result"), Open("other")>>)
    /\ phase = "idle"
    /\ calls = 1
    /\ ret = R("Row", ValidRow(1))
    /\ pos = AfterRow(1)

\* the row the i-th <result> of these shapes stands for
ExpectedRow(shapes, i) ==
    IF shapes[i] = "bound" THEN ValidRow(i) ELSE <<None>>

\* C21: on a valid document of n <result> elements, self-closing ones
\* included, call number i of next(), i <= n, returns the row of the i-th
\* element, and every later call returns None.
C21_RowsThenNone ==
    \A shapes \in ShapeSeqs :
        (doc = ResultsDoc(shapes) /\ phase = "idle" /\ calls >= 1) =>
            ret = IF calls <= Len(shapes)
                  THEN R("Row", ExpectedRow(shapes, calls))
                  ELSE R("None", "")

\* the events of the rows that are not texts
NonTextRowEvents ==
    RowStartEvents \cup RowEmptyEvents \cup EndEvents
    \cup {EofEvent, OtherEvent, ReadError}

\* C22: in next() no event other than a text captures a term; a binding
\* opens with no term captured; a value element closed while no term is
\* captured leaves the binding with no term, and closing that binding
\* returns the missing-value error; no literal captured or returned in a
\* row has the empty string as its value.
C22_TermOnlyFromText ==
    /\ phase = "next" =>
        \A e \in NonTextRowEvents : NextIteration(e).term \in {term, None}
    /\ (phase = "next" /\ state \in {"Start", "Result", "End"}) => term = None
    /\ (phase = "next" /\ state \in {"Uri", "BNode", "Literal"} /\ term = None) =>
        \A e \in EndEvents :
            ~NamespaceMismatch(e) =>
                /\ NextIteration(e).ret = Pending
                /\ NextIteration(e).state = "Binding"
                /\ NextIteration(e).term = None
                /\ NextIteration(e).new_bindings = new_bindings
    /\ (phase = "next" /\ state = "Binding" /\ term = None) =>
        NextIteration(Close).ret = Err(MissingValue)
    /\ \A t \in Range(term) : t.tag = "Literal" => t.value /= ""
    /\ ret.kind = "Row" =>
        \A i \in DOMAIN ret.val :
            \A t \in Range(ret.val[i]) : t.tag = "Literal" => t.value /= ""

\* C22, witness: in a <result> with no binding closed yet, a <literal> with
\* a datatype was opened and closed with no text: the binding has no term
C22_Witness ==
    /\ phase = "next"
    /\ state = "Binding"
    /\ term = None
    /\ datatype = Some(XsdInteger)
    /\ doc_bindings = EmptyMap

\* the labels of the <bnode> texts resolved so far in this session
LabelsRead == {p[1] : p \in resolved}

\* the identities held by the blank node table
Identities == {bnodes_map[l] : l \in DOMAIN bnodes_map}

\* C23: within a parse session the blank node table is injective and only
\* grows: two different labels are mapped to two different identities, the
\* table has one entry for each distinct label read so far and nothing else,
\* and a step allocates a fresh identity exactly when it reads a label that
\* has no entry yet: the new entry is that label with the identity just
\* allocated, and a label that has an entry allocates nothing.
C23_BNodeTableInjective ==
    /\ [](\A a, b \in DOMAIN bnodes_map :
              bnodes_map[a] = bnodes_map[b] => a = b)
    /\ [](DOMAIN bnodes_map = LabelsRead)
    /\ [](Cardinality(DOMAIN bnodes_map) = Cardinality(LabelsRead))
    /\ [](\A p, q \in resolved : p[1] /= q[1] => p[2] /= q[2])
    /\ [][session' = session =>
            /\ DOMAIN bnodes_map \subseteq DOMAIN bnodes_map'
            /\ Cardinality(DOMAIN bnodes_map') >= Cardinality(DOMAIN bnodes_map)
            /\ (next_id' /= next_id) <=>
                   (DOMAIN bnodes_map' /= DOMAIN bnodes_map)
            /\ \A l \in DOMAIN bnodes_map' \ DOMAIN bnodes_map :
                   /\ DOMAIN bnodes_map' = DOMAIN bnodes_map \cup {l}
                   /\ bnodes_map'[l] = next_id
                   /\ bnodes_map'[l] \notin Identities
                   /\ next_id' = next_id + 1
                   /\ resolved' = resolved \cup {<<l, next_id>>}
            /\ (resolved' /= resolved /\ next_id' = next_id) =>
                   \E p \in resolved' \ resolved :
                       /\ p[1] \in DOMAIN bnodes_map
                       /\ p[2] = bnodes_map[p[1]]]_vars

\* C23, witness: in one session the two labels "1" and ExampleIri have been
\* read, each has its own identity, and the label "1" has just been read a
\* second time (its first binding is closed) without a third identity
\* being allocated
C23_Witness ==
    /\ session = 1
    /\ DOMAIN bnodes_map = {"1", ExampleIri}
    /\ bnodes_map["1"] /= bnodes_map[ExampleIri]
    /\ next_id = 3
    /\ "x" \in DOMAIN doc_bindings
    /\ doc_bindings["x"] = BlankNodeTerm(bnodes_map[ExampleIri])
    /\ state = "BNode"
    /\ term = Some(BlankNodeTerm(bnodes_map["1"]))

(***************************************************************************)
(* Properties of the writers.                                              *)
(***************************************************************************)
\* every call of write made so far returned Ok
AllWritesOk == wcalls = Len(submitted)

\* C14: for an N-Triples TripleWriter and an N-Quads QuadWriter whose calls
\* of write all returned Ok, the sink holds, before and after finish, one
\* terminated line per statement written, the i-th line being the encoding
\* of the i-th statement: finish adds nothing.
C14_LinesInOrder ==
    (wlife \in {"created", "finished"} /\ AllWritesOk) =>
        /\ serializer = Some("NTriples") =>
              sink = [i \in 1..Len(submitted) |-> NTriplesLine(submitted[i])]
        /\ serializer = Some("NQuads") =>
              sink = [i \in 1..Len(submitted) |-> NQuadsLine(submitted[i])]

\* C14, witness: the triples t, s, s were written in this order in
\* N-Triples and the writer was finished
C14_Witness ==
    /\ serializer = Some("NTriples")
    /\ wlife = "finished"
    /\ wret = Ok
    /\ sink =
        <<"<http://example.com/t> <http://example.com/p> <http://example.com/o> .\n",
          "<http://example.com/s> <http://example.com/p> <http://example.com/o> .\n",
          "<http://example.com/s> <http://example.com/p> <http://example.com/o> .\n">>

\* the tokens opens and closes are nested in the sequence s, one level deep,
\* and every token of inside lies between an opening and its closing
Depth(s, opens, closes, i) ==
    Cardinality({j \in 1..i : s[j] \in opens})
    - Cardinality({j \in 1..i : s[j] \in closes})
Nested(s, opens, closes, inside) ==
    /\ \A i \in DOMAIN s : Depth(s, opens, closes, i) \in {0, 1}
    /\ Depth(s, opens, closes, Len(s)) = 0
    /\ \A i \in DOMAIN s : s[i] \in inside => Depth(s, opens, closes, i) = 1

\* the sequence s of tokens is a complete document of the format
Complete(kind, s) ==
    CASE kind = "NTriples" -> \A i \in DOMAIN s : s[i] \in {NTriplesLine(t) : t \in Triples}
      [] kind = "NQuads" -> \A i \in DOMAIN s : s[i] \in {NQuadsLine(q) : q \in Quads}
      [] kind = "Turtle" ->
            Nested(s, {Iri(x) : x \in Subjects}, {StatementEnd},
                   {PredicateObject(t) : t \in Triples} \cup {SameSubject})
      [] kind = "TriG" ->
            /\ Nested(s, {GraphOpen(q) : q \in Quads}, {GraphEnd},
                      {Iri(x) : x \in Subjects} \cup {StatementEnd})
            /\ Nested(s, {Iri(x) : x \in Subjects}, {StatementEnd},
                      {PredicateObject(q) : q \in Quads} \cup {SameSubject})
      [] kind = "RdfXml" ->
            /\ s /= <<>>
            /\ s[1] = RdfRoot
            /\ s[Len(s)] = RdfRootEnd
            /\ Nested(s, {RdfRoot}, {RdfRootEnd},
                      {Description(x) : x \in Subjects} \cup {DescriptionEnd})
            /\ Nested(s, {Description(x) : x \in Subjects}, {DescriptionEnd},
                      {Property(t) : t \in Triples})

\* the encoder driven is the one of the syntax chosen at construction, and
\* the root element of RDF-XML is not closed before finish
OneEncoder ==
    /\ \A kind \in driven : serializer = Some(kind)
    /\ wlife = "created" => RdfRootEnd \notin Range(sink)
\* finish consumes the writer: nothing is written or finished after it
FinishIsLast == [][wlife = "finished" => UNCHANGED writing]_vars

C16_ErrorPropagation ==
    /\ [](serializer = Some("RdfXml") =>
            wret \in {Pending, Ok} \cup {IoError("Other", Some(e)) : e \in RdfXmlErrors})
    /\ []((IsSome(serializer) /\ serializer /= Some("RdfXml")) =>
            wret \in {Pending, Ok} \cup SinkErrors)
    /\ [](wlife = "failed" =>
            serializer = Some("RdfXml") /\ formatter = None /\ wret.kind = "Other")
    /\ [][(wcalls' = wcalls + 1 /\ wret' /= Ok) =>
            UNCHANGED <<submitted, formatter, wlife>>]_vars

\* C16, witness: the construction of an RDF-XML writer failed on a broken
\* pipe: the error returned is of kind Other and there is no writer
C16_Witness ==
    /\ serializer = Some("RdfXml")
    /\ wlife = "failed"
    /\ formatter = None
    /\ wret = IoError("Other", Some([variant |-> "Io", kind |-> "BrokenPipe"]))

=============================================================================
